---- MODULE Spec2Model ----
(***************************************************************************)
(* Model of kalliope/trigger/snowboy/snowboydecoder.py: the RingBuffer,    *)
(* the HotwordDetector constructor with open_audio, and the detection loop *)
(* run() together with the capture callback and the pause / unpause /      *)
(* terminate controller.                                                   *)
(*                                                                         *)
(* A byte of audio is represented by its position in the capture stream    *)
(* (1, 2, 3, ...): the buffer never inspects a byte's value, and distinct  *)
(* positions let loss, duplication and reordering be observed.             *)
(* Sensitivities are in tenths (5 is 0.5, 6 is 0.6).                       *)
(***************************************************************************)
EXTENDS Integers, Sequences, FiniteSets, TLC

\* ------------------------------------------------------------ bounds
\* Total number of bytes passed to extend in one behaviour of the buffer alone.
MaxBytes == 4
\* Largest frame (in bytes) one extend call or capture callback delivers.
MaxFrame == 2
\* Largest ring-buffer capacity of the buffer alone.
MaxRingSize == 2
\* Total number of bytes the capture subsystem delivers to a running detector.
LoopBytes == 2
\* Ring-buffer capacity of the running detector (holds a block of two bytes).
LoopRingSize == 2
\* Largest number of hotwords of the detector the detection loop runs on.
MaxHotwords == 2
\* Largest number of models passed to the constructor.
MaxModels == 3
\* Hotwords the engine may report beyond one per model (universal models).
MaxExtraHotwords == 1
\* Number of detector constructions in one behaviour.
MaxConstructions == 2
\* Longest sensitivity list a caller passes.
MaxSens == 3

\* ------------------------------------------------------------ program constants
\* sensitivity.append(0.5), in tenths
DefaultSensitivity == 5
\* if i == 5: give up
MaxOpenRetry == 5
\* RingBuffer(NumChannels * SampleRate * 5)
BufferSeconds == 5

VARIABLES
    \* RingBuffer
    buf,            \* self._buf, the deque, oldest byte first
    rb_paused,      \* RingBuffer.paused
    ring_size,      \* the deque's maxlen
    \* observation of the ring buffer's traffic
    captured,       \* number of bytes handed to extend so far
    pending,        \* bytes accepted by extend since the last clear, in order
    evicted,        \* bytes dropped from the head by the maxlen rule
    discarded,      \* bytes handed to extend while paused
    delivered,      \* concatenation of every get result, in order
    last_get,       \* the result of the latest get
    rb_op,          \* the latest ring-buffer operation (sequential use)
    \* HotwordDetector fields
    paused,         \* self.paused
    kill_received,  \* self.kill_received
    interrupt,      \* what interrupt_check() currently returns
    detected_callback,  \* self.detected_callback
    num_hotwords,   \* self.num_hotwords
    stream_in,      \* self.stream_in: "none", "open", "closed"
    audio,          \* self.audio: "none", "live", "terminated"
    \* run(): the detection thread
    pc, tmp, data, ans, callback,
    \* audio_callback: the capture thread
    cb_pc, in_data,
    \* the caller's thread (pause / unpause / terminate)
    ctl_pc,
    \* observation of the detector
    pause_held,     \* pause() has returned and unpause() was not called since
    held_work,      \* what was done since pause() returned, while it is held
    kill_work,      \* what the running loop did since kill_received was set
    fed,            \* concatenation of the blocks passed to RunDetection
    iter_checked,   \* the current iteration has evaluated interrupt_check() (to False)
    cfg_callback,   \* the detected_callback argument as supplied
    \* __init__ and open_audio
    ip,             \* position in __init__ / open_audio
    decoder_model,  \* the decoder_model argument
    sens_arg,       \* the sensitivity argument: "default", "scalar", "list"
    default_sens,   \* the list object bound as the default of sensitivity=[]
    caller_sens,    \* the list object (or the scalar) the caller passed
    caller_orig,    \* its value when the constructor was entered
    sens_ref,       \* which object the local name sensitivity refers to
    local_sens,     \* the list built inside __init__ (when sens_ref = "local")
    n_models,       \* len(decoder_model) after normalisation
    set_sens,       \* whether SetSensitivity was called, and its argument
    fmt,            \* the engine's audio format
    oa_i,           \* open_audio's parameter i
    attempts,       \* calls of self.audio.open so far
    sleeps,         \* the arguments of time.sleep, in order
    exc,            \* the exception __init__ ended with, or "none"
    n_constructed   \* constructions finished so far

rbVars    == <<buf, rb_paused, ring_size>>
rbObs     == <<captured, pending, evicted, discarded, delivered, last_get, rb_op>>
detVars   == <<paused, kill_received, interrupt, detected_callback, num_hotwords,
               stream_in, audio>>
loopVars  == <<pc, tmp, data, ans, callback>>
capVars   == <<cb_pc, in_data>>
detObs    == <<pause_held, held_work, kill_work, fed, iter_checked, cfg_callback>>
ctorVars  == <<ip, decoder_model, sens_arg, default_sens, caller_sens, caller_orig,
               sens_ref, local_sens, n_models, set_sens, fmt, oa_i, attempts,
               sleeps, exc, n_constructed>>
vars == <<rbVars, rbObs, detVars, loopVars, capVars, ctl_pc, detObs, ctorVars>>

\* ------------------------------------------------------------ helpers
Range(s) == {s[k] : k \in 1..Len(s)}

Min(a, b) == IF a < b THEN a ELSE b

\* The last n elements of s (all of s when it is shorter).
LastN(n, s) == SubSeq(s, Len(s) - Min(n, Len(s)) + 1, Len(s))

\* The frame of n bytes that follows the c bytes captured so far.
Frame(c, n) == [k \in 1..n |-> c + k]

\* ------------------------------------------------------------ RingBuffer
\* collections.deque(maxlen=size).append(x): at capacity the oldest element
\* is dropped from the left; a deque of maxlen 0 stays empty.
DequeAppendDropNewest(d, x, maxlen) ==
    IF Len(d) >= maxlen THEN d ELSE Append(d, x)

DequeAppend(d, x, maxlen) ==
    IF maxlen = 0 THEN <<>>
    ELSE IF Len(d) >= maxlen THEN Append(Tail(d), x)
    ELSE Append(d, x)

\* deque.extend(data): appends the elements of data one by one, left to right.
RECURSIVE DequeExtend(_, _, _)
DequeExtend(d, xs, maxlen) ==
    IF xs = <<>> THEN d
    ELSE DequeExtend(DequeAppend(d, Head(xs), maxlen), Tail(xs), maxlen)

\* RingBuffer.extend(data) as one call: nothing happens while paused.
ExtendIgnoresPause(b, p, xs, maxlen) == DequeExtend(b, xs, maxlen)

RB_extend(b, p, xs, maxlen) ==
    IF ~p THEN DequeExtend(b, xs, maxlen) ELSE b

\* bytes(bytearray(self._buf)): a copy of the deque's content, oldest first.
RB_copyReversed(b) == [k \in 1..Len(b) |-> b[Len(b) + 1 - k]]

RB_copy(b) == [k \in 1..Len(b) |-> b[k]]

\* self._buf.clear()
RB_clearKeepsAll(b) == b

RB_clear(b) == <<>>

\* ------------------------------------------------------------ observation
\* What the maxlen rule dropped when old became new by taking in xs.
Dropped(old, xs, new) == (Range(old) \cup Range(xs)) \ Range(new)

\* ------------------------------------------------------------ value sets
\* Counts of appends, drains, engine calls and callback invocations.
NoWork == [append |-> 0, drain |-> 0, engine |-> 0, cb |-> 0]

\* The counts after one more piece of work of kind f, counted while held.
Count(w, f, held) == IF held THEN [w EXCEPT ![f] = @ + 1] ELSE w

None == "None"

\* The caller's callback for hotword k.
CallbackNames == <<"cb1", "cb2", "cb3", "cb4", "cb5">>

\* A Python value that is either a list or not: type(x) is list.
Scalar(v) == [list |-> FALSE, val |-> v]
List(v)   == [list |-> TRUE, val |-> v]

SeqsUpTo(S, n) == UNION {[1..k -> S] : k \in 0..n}

\* ------------------------------------------------------------ idle parts
\* The constructor's variables once a detector has been constructed from one
\* model file holding n hotwords, with the default sensitivity argument and
\* a first open attempt that succeeded.
CtorDone(n) ==
    /\ ip = "constructed"
    /\ decoder_model = Scalar("a")
    /\ sens_arg = "default"
    /\ default_sens = [k \in 1..n |-> DefaultSensitivity]
    /\ caller_sens = <<>>
    /\ caller_orig = <<>>
    /\ sens_ref = "default"
    /\ local_sens = <<>>
    /\ n_models = 1
    /\ set_sens = [called |-> TRUE, arg |-> [k \in 1..n |-> "0.5"]]
    /\ fmt = [channels |-> 1, rate |-> 1, bits |-> 16]
    /\ oa_i = 0
    /\ attempts = 1
    /\ sleeps = <<>>
    /\ exc = "none"
    /\ n_constructed = 1

\* RingBuffer.__init__: an empty deque, not paused.
RB_init(size) ==
    /\ buf = <<>>
    /\ rb_paused = FALSE
    /\ ring_size = size
    /\ captured = 0
    /\ pending = <<>>
    /\ evicted = {}
    /\ discarded = {}
    /\ delivered = <<>>
    /\ last_get = <<>>
    /\ rb_op = "none"

\* The detector's fields after lines 68-72; the detection thread is not
\* started.
Det_init(cb, n) ==
    /\ paused = FALSE
    /\ kill_received = FALSE
    /\ interrupt \in BOOLEAN
    /\ detected_callback = cb
    /\ cfg_callback = cb
    /\ num_hotwords = n
    /\ pc = "not_started"
    /\ tmp = <<>>
    /\ data = <<>>
    /\ ans = 0
    /\ callback = None
    /\ cb_pc = "idle"
    /\ in_data = <<>>
    /\ ctl_pc = "idle"
    /\ pause_held = FALSE
    /\ held_work = NoWork
    /\ kill_work = NoWork
    /\ fed = <<>>
    /\ iter_checked = FALSE

\* ------------------------------------------------------------ RingBuffer, sequential use
\* One caller performs extend / get / pause / unpause one after another.
InitRB ==
    /\ \E size \in 1..MaxRingSize : RB_init(size)
    /\ Det_init(Scalar(None), 1)
    /\ interrupt = FALSE
    /\ stream_in = "open"
    /\ audio = "live"
    /\ CtorDone(1)

SeqExtend ==
    \E n \in 1..MaxFrame :
        /\ captured + n <= MaxBytes
        /\ LET xs == Frame(captured, n)
               nb == RB_extend(buf, rb_paused, xs, ring_size)
           IN /\ buf' = nb
              /\ captured' = captured + n
              /\ pending' = IF rb_paused THEN pending ELSE pending \o xs
              /\ discarded' = IF rb_paused THEN discarded \cup Range(xs) ELSE discarded
              /\ evicted' = IF rb_paused THEN evicted
                            ELSE evicted \cup Dropped(buf, xs, nb)
        /\ rb_op' = "extend"
        /\ UNCHANGED <<rb_paused, ring_size, delivered, last_get>>
        /\ UNCHANGED <<detVars, loopVars, capVars, ctl_pc, detObs, ctorVars>>

SeqGet ==
    /\ last_get' = RB_copy(buf)
    /\ buf' = RB_clear(buf)
    /\ delivered' = delivered \o last_get'
    /\ pending' = <<>>
    /\ rb_op' = "get"
    /\ UNCHANGED <<rb_paused, ring_size, captured, evicted, discarded>>
    /\ UNCHANGED <<detVars, loopVars, capVars, ctl_pc, detObs, ctorVars>>

\* RingBuffer.pause / unpause
RB_pauseLeavesFlag(p) == p

RB_pause(p) == TRUE
RB_unpause(p) == FALSE

SeqPause ==
    /\ rb_paused' = RB_pause(rb_paused)
    /\ rb_op' = "pause"
    /\ UNCHANGED <<buf, ring_size, captured, pending, evicted, discarded,
                   delivered, last_get>>
    /\ UNCHANGED <<detVars, loopVars, capVars, ctl_pc, detObs, ctorVars>>

SeqUnpause ==
    /\ rb_paused' = RB_unpause(rb_paused)
    /\ rb_op' = "unpause"
    /\ UNCHANGED <<buf, ring_size, captured, pending, evicted, discarded,
                   delivered, last_get>>
    /\ UNCHANGED <<detVars, loopVars, capVars, ctl_pc, detObs, ctorVars>>

NextRB == SeqExtend \/ SeqGet \/ SeqPause \/ SeqUnpause

SpecRB == InitRB /\ [][NextRB]_vars

\* ------------------------------------------------------------ run(): entry
\* list * n
RECURSIVE Repeat(_, _)
Repeat(s, n) == IF n <= 0 THEN <<>> ELSE s \o Repeat(s, n - 1)

\* Lines 161-165: wrap a non-list, then broadcast a single callback.
NormalizeCallbacks(dc, n) ==
    LET wrapped == IF dc.list THEN dc ELSE List(<<dc.val>>)
    IN IF Len(wrapped.val) = 1 /\ n > 1
       THEN List(Repeat(wrapped.val, n))
       ELSE wrapped

\* if self.interrupt_check(): return
EntryIgnoresInterrupt(i) == "normalize"

EntryBranch(i) == IF i THEN "done" ELSE "normalize"

Run_Entry ==
    /\ pc = "not_started"
    /\ pc' = EntryBranch(interrupt)
    /\ UNCHANGED <<tmp, data, ans, callback>>
    /\ UNCHANGED <<rbVars, rbObs, detVars, capVars, ctl_pc, detObs, ctorVars>>

\* assert self.num_hotwords == len(self.detected_callback)
CallbackCountAtLeast(n, dc) == n <= Len(dc.val)

CallbackCountOk(n, dc) == n = Len(dc.val)

\* Lines 161-169: normalise the callbacks, then the assertion.
Run_Normalize ==
    /\ pc = "normalize"
    /\ detected_callback' = NormalizeCallbacks(detected_callback, num_hotwords)
    /\ pc' = IF CallbackCountOk(num_hotwords, detected_callback')
             THEN "while" ELSE "assert_failed"
    /\ UNCHANGED <<tmp, data, ans, callback>>
    /\ UNCHANGED <<paused, kill_received, interrupt, num_hotwords, stream_in, audio>>
    /\ UNCHANGED <<rbVars, rbObs, capVars, ctl_pc, detObs, ctorVars>>

\* ------------------------------------------------------------ run(): the loop
\* The locals tmp, data, ans and callback are written before they are read in
\* every iteration; the model clears each one at its last read.
\* iter_checked is cleared whenever control returns to the loop head, and
\* kill_work when the loop exits.

\* while not self.kill_received:
LoopIgnoresKill(k) == TRUE

LoopContinues(k) == ~k

Loop_While ==
    /\ pc = "while"
    /\ pc' = IF LoopContinues(kill_received) THEN "if_paused" ELSE "done"
    /\ ans' = 0
    /\ kill_work' = IF pc' = "done" THEN NoWork ELSE kill_work
    /\ UNCHANGED <<tmp, data, callback>>
    /\ UNCHANGED <<pause_held, held_work, fed, iter_checked, cfg_callback>>
    /\ UNCHANGED <<rbVars, rbObs, detVars, capVars, ctl_pc, ctorVars>>

\* if not self.paused: ... else: (the sleep of line 194)
PausedBranch(p) == IF p THEN "sleep_paused" ELSE "interrupt_check"

Loop_IfPaused ==
    /\ pc = "if_paused"
    /\ pc' = PausedBranch(paused)
    /\ UNCHANGED <<tmp, data, ans, callback>>
    /\ UNCHANGED <<rbVars, rbObs, detVars, capVars, ctl_pc, detObs, ctorVars>>

\* if self.interrupt_check(): break
Loop_Interrupt ==
    /\ pc = "interrupt_check"
    /\ pc' = IF interrupt THEN "done" ELSE "get_copy"
    /\ iter_checked' = ~interrupt
    /\ kill_work' = IF pc' = "done" THEN NoWork ELSE kill_work
    /\ UNCHANGED <<tmp, data, ans, callback>>
    /\ UNCHANGED <<pause_held, held_work, fed, cfg_callback>>
    /\ UNCHANGED <<rbVars, rbObs, detVars, capVars, ctl_pc, ctorVars>>

\* RingBuffer.get, first statement: tmp = bytes(bytearray(self._buf))
Loop_GetCopy ==
    /\ pc = "get_copy"
    /\ tmp' = RB_copy(buf)
    /\ pc' = "get_clear"
    /\ UNCHANGED <<data, ans, callback>>
    /\ UNCHANGED <<rbVars, rbObs, detVars, capVars, ctl_pc, detObs, ctorVars>>

\* RingBuffer.get, the rest: self._buf.clear(); return tmp. Then
\* data = ...; if len(data) == 0: (the sleep of line 180)
Loop_GetClear ==
    /\ pc = "get_clear"
    /\ buf' = RB_clear(buf)
    /\ data' = tmp
    /\ tmp' = <<>>
    /\ delivered' = delivered \o tmp
    /\ pc' = IF Len(data') = 0 THEN "sleep_empty" ELSE "run_detection"
    /\ UNCHANGED <<ans, callback>>
    /\ UNCHANGED <<rb_paused, ring_size, captured, pending, evicted, discarded,
                   last_get, rb_op>>
    /\ held_work' = Count(held_work, "drain", pause_held)
    /\ kill_work' = Count(kill_work, "drain", kill_received)
    /\ UNCHANGED <<pause_held, fed, iter_checked, cfg_callback>>
    /\ UNCHANGED <<detVars, capVars, ctl_pc, ctorVars>>

\* time.sleep(self.sleep_time) of line 180, then continue
Loop_SleepEmpty ==
    /\ pc = "sleep_empty"
    /\ pc' = "while"
    /\ iter_checked' = FALSE
    /\ UNCHANGED <<tmp, data, ans, callback>>
    /\ UNCHANGED <<pause_held, held_work, kill_work, fed, cfg_callback>>
    /\ UNCHANGED <<rbVars, rbObs, detVars, capVars, ctl_pc, ctorVars>>

\* time.sleep(self.sleep_time) of line 194
Loop_SleepPaused ==
    /\ pc = "sleep_paused"
    /\ pc' = "while"
    /\ iter_checked' = FALSE
    /\ UNCHANGED <<tmp, data, ans, callback>>
    /\ UNCHANGED <<pause_held, held_work, kill_work, fed, cfg_callback>>
    /\ UNCHANGED <<rbVars, rbObs, detVars, capVars, ctl_pc, ctorVars>>

\* ans = self.detector.RunDetection(data): -1, 0 or a hotword index
EngineResults(n) == {-1, 0} \cup (1..n)

Loop_RunDetection ==
    /\ pc = "run_detection"
    /\ \E r \in EngineResults(num_hotwords) : ans' = r
    /\ fed' = fed \o data
    /\ data' = <<>>
    /\ pc' = "dispatch"
    /\ held_work' = Count(held_work, "engine", pause_held)
    /\ kill_work' = Count(kill_work, "engine", kill_received)
    /\ UNCHANGED <<tmp, callback>>
    /\ UNCHANGED <<pause_held, iter_checked, cfg_callback>>
    /\ UNCHANGED <<rbVars, rbObs, detVars, capVars, ctl_pc, ctorVars>>

\* callback = self.detected_callback[ans-1] (Python indexes from 0, the
\* model's sequences from 1)
PickCallbackOffByOne(dc, k) == dc.val[(k % Len(dc.val)) + 1]

PickCallback(dc, k) == dc.val[k]

\* if ans == -1: warning / elif ans > 0: ... if callback is not None
ErrorStopsLoop(a, cb) ==
    IF a = -1 THEN "done"
    ELSE IF a > 0 /\ cb # None THEN "callback" ELSE "while"

DispatchTarget(a, cb) == IF a > 0 /\ cb # None THEN "callback" ELSE "while"

\* Lines 184-190: the branch on ans, up to the test of callback.
Loop_Dispatch ==
    /\ pc = "dispatch"
    /\ LET cb == IF ans > 0 THEN PickCallback(detected_callback, ans)
                 ELSE None
       IN /\ pc' = DispatchTarget(ans, cb)
          /\ callback' = IF pc' = "callback" THEN cb ELSE None
          /\ iter_checked' = (iter_checked /\ pc' = "callback")
    /\ UNCHANGED <<tmp, data, ans>>
    /\ UNCHANGED <<pause_held, held_work, kill_work, fed, cfg_callback>>
    /\ UNCHANGED <<rbVars, rbObs, detVars, capVars, ctl_pc, ctorVars>>

\* callback()
Loop_Callback ==
    /\ pc = "callback"
    /\ callback' = None
    /\ pc' = "while"
    /\ iter_checked' = FALSE
    /\ held_work' = Count(held_work, "cb", pause_held)
    /\ kill_work' = Count(kill_work, "cb", kill_received)
    /\ UNCHANGED <<tmp, data, ans>>
    /\ UNCHANGED <<pause_held, fed, cfg_callback>>
    /\ UNCHANGED <<rbVars, rbObs, detVars, capVars, ctl_pc, ctorVars>>

\* ------------------------------------------------------------ audio_callback
\* The capture thread calls audio_callback(in_data, ...) while the stream is
\* open; RingBuffer.extend first reads self.paused.
Cap_Invoke ==
    \E n \in 1..MaxFrame :
        /\ stream_in = "open"
        /\ cb_pc = "idle"
        /\ captured + n <= LoopBytes
        /\ captured' = captured + n
        /\ IF rb_paused
           THEN /\ discarded' = discarded \cup Range(Frame(captured, n))
                /\ UNCHANGED <<cb_pc, in_data>>
           ELSE /\ in_data' = Frame(captured, n)
                /\ cb_pc' = "extend"
                /\ UNCHANGED discarded
        /\ UNCHANGED <<pending, evicted, delivered, last_get, rb_op>>
        /\ UNCHANGED <<rbVars, detVars, loopVars, ctl_pc, detObs, ctorVars>>

\* self._buf.extend(data), then return play_data, paContinue
Cap_Extend ==
    /\ cb_pc = "extend"
    /\ buf' = DequeExtend(buf, in_data, ring_size)
    /\ evicted' = evicted \cup Dropped(buf, in_data, buf')
    /\ cb_pc' = "idle"
    /\ in_data' = <<>>
    /\ UNCHANGED <<rb_paused, ring_size, captured, pending, discarded, delivered,
                   last_get, rb_op>>
    /\ held_work' = Count(held_work, "append", pause_held)
    /\ UNCHANGED <<pause_held, kill_work, fed, iter_checked, cfg_callback>>
    /\ UNCHANGED <<detVars, loopVars, ctl_pc, ctorVars>>

\* ------------------------------------------------------------ the caller's thread
\* HotwordDetector.pause: self.paused = True
Pause_SetFlag ==
    /\ ctl_pc = "idle"
    /\ paused' = TRUE
    /\ ctl_pc' = "pause"
    /\ UNCHANGED <<kill_received, interrupt, detected_callback, num_hotwords,
                   stream_in, audio>>
    /\ UNCHANGED <<rbVars, rbObs, loopVars, capVars, detObs, ctorVars>>

\* HotwordDetector.pause: self.ring_buffer.pause(), and pause() returns
Pause_Buffer ==
    /\ ctl_pc = "pause"
    /\ rb_paused' = RB_pause(rb_paused)
    /\ ctl_pc' = "idle"
    /\ pause_held' = TRUE
    /\ held_work' = NoWork
    /\ UNCHANGED <<buf, ring_size>>
    /\ UNCHANGED <<kill_work, fed, iter_checked, cfg_callback>>
    /\ UNCHANGED <<rbObs, detVars, loopVars, capVars, ctorVars>>

\* HotwordDetector.unpause: self.paused = False
Unpause_SetFlag ==
    /\ ctl_pc = "idle"
    /\ paused' = FALSE
    /\ ctl_pc' = "unpause"
    /\ pause_held' = FALSE
    /\ held_work' = NoWork
    /\ UNCHANGED <<kill_received, interrupt, detected_callback, num_hotwords,
                   stream_in, audio>>
    /\ UNCHANGED <<kill_work, fed, iter_checked, cfg_callback>>
    /\ UNCHANGED <<rbVars, rbObs, loopVars, capVars, ctorVars>>

\* HotwordDetector.unpause: self.ring_buffer.unpause()
Unpause_Buffer ==
    /\ ctl_pc = "unpause"
    /\ rb_paused' = RB_unpause(rb_paused)
    /\ ctl_pc' = "idle"
    /\ UNCHANGED <<buf, ring_size>>
    /\ UNCHANGED <<rbObs, detVars, loopVars, capVars, detObs, ctorVars>>

\* HotwordDetector.terminate: stop_stream (which waits for a running capture
\* callback), close, audio.terminate. It writes no other field.
TerminateSetsKill(k) == TRUE

\* kill_received across terminate(): no statement of terminate assigns it.
KillAfterTerminate(k) == k

Terminate ==
    /\ ctl_pc = "idle"
    /\ stream_in = "open"
    /\ cb_pc = "idle"
    /\ stream_in' = "closed"
    /\ audio' = "terminated"
    /\ kill_received' = KillAfterTerminate(kill_received)
    /\ UNCHANGED <<paused, interrupt, detected_callback, num_hotwords>>
    /\ UNCHANGED <<rbVars, rbObs, loopVars, capVars, ctl_pc, detObs, ctorVars>>

\* The owner of the detector sets the field kill_received (initialised at
\* line 71, read at line 173); the code never resets it.
SetKill ==
    /\ ~kill_received
    /\ kill_received' = TRUE
    /\ UNCHANGED <<paused, interrupt, detected_callback, num_hotwords,
                   stream_in, audio>>
    /\ UNCHANGED <<rbVars, rbObs, loopVars, capVars, ctl_pc, detObs, ctorVars>>

\* The caller-supplied predicate interrupt_check starts to return True.
SetInterrupt ==
    /\ ~interrupt
    /\ interrupt' = TRUE
    /\ UNCHANGED <<paused, kill_received, detected_callback, num_hotwords,
                   stream_in, audio>>
    /\ UNCHANGED <<rbVars, rbObs, loopVars, capVars, ctl_pc, detObs, ctorVars>>

\* ------------------------------------------------------------ the detector
\* The detected_callback arguments: one callback, or a list of callbacks.
\* A list holds, at position k, the callback for hotword k or None.
CallbackLists(n) ==
    UNION {{cs \in [1..k -> {None} \cup Range(CallbackNames)] :
               \A j \in 1..k : cs[j] \in {None, CallbackNames[j]}} : k \in 0..n}

CallbackArgs ==
    {Scalar(None), Scalar(CallbackNames[1])}
        \cup {List(cs) : cs \in CallbackLists(MaxHotwords)}

\* A constructed detector whose thread is not started. The ring buffer's
\* capacity is scaled down to LoopRingSize bytes.
Init ==
    /\ RB_init(LoopRingSize)
    /\ \E cb \in CallbackArgs, n \in 1..MaxHotwords : Det_init(cb, n) /\ CtorDone(n)
    /\ stream_in = "open"
    /\ audio = "live"

Detect ==
    \/ Run_Entry \/ Run_Normalize
    \/ Loop_While \/ Loop_IfPaused \/ Loop_Interrupt
    \/ Loop_GetCopy \/ Loop_GetClear
    \/ Loop_SleepEmpty \/ Loop_SleepPaused
    \/ Loop_RunDetection \/ Loop_Dispatch \/ Loop_Callback

Capture == Cap_Invoke \/ Cap_Extend

Control ==
    \/ Pause_SetFlag \/ Pause_Buffer \/ Unpause_SetFlag \/ Unpause_Buffer
    \/ Terminate

Next == Detect \/ Capture \/ Control \/ SetKill \/ SetInterrupt

Spec == Init /\ [][Next]_vars

\* The detection thread is scheduled again and again: sleep, RunDetection and
\* the user's callback return.
SpecFair == Spec /\ WF_vars(Detect)

\* ------------------------------------------------------------ __init__
SensValues == {DefaultSensitivity, DefaultSensitivity + 1}

\* str(t) of a sensitivity given in tenths
StrOf(t) == IF t = 5 THEN "0.5" ELSE IF t = 6 THEN "0.6" ELSE "?"

ModelNames == <<"a", "b", "c", "d", "e">>

\* decoder_model: one path, or a list of paths
ModelArgs ==
    {Scalar("a")} \cup {List(SubSeq(ModelNames, 1, k)) : k \in 1..MaxModels}

Channels == {1, 2}
Rates == {1, 2}
Bits == {8, 16}

\* The list the local name sensitivity refers to.
CurSens ==
    CASE sens_ref = "default" -> default_sens
      [] sens_ref = "caller"  -> caller_sens
      [] OTHER                -> local_sens

InitCtor ==
    /\ RB_init(0)
    /\ Det_init(Scalar(None), 0)
    /\ interrupt = FALSE
    /\ stream_in = "none"
    /\ audio = "none"
    /\ ip = "idle"
    /\ decoder_model = Scalar("a")
    /\ sens_arg = "default"
    /\ default_sens = <<>>
    /\ caller_sens = <<>>
    /\ caller_orig = <<>>
    /\ sens_ref = "default"
    /\ local_sens = <<>>
    /\ n_models = 0
    /\ set_sens = [called |-> FALSE, arg |-> <<>>]
    /\ fmt = [channels |-> 1, rate |-> 1, bits |-> 8]
    /\ oa_i = 0
    /\ attempts = 0
    /\ sleeps = <<>>
    /\ exc = "none"
    /\ n_constructed = 0

\* The appends of the padding loop stop here when nothing else stops them.
PadCap == MaxModels + MaxExtraHotwords + MaxSens

\* Lines 58-91: bind the arguments, initialise the fields, wrap non-list
\* arguments, create the engine and read its hotword count.
Ctor_Begin ==
    /\ ip = "idle"
    /\ n_constructed < MaxConstructions
    /\ n_constructed' = n_constructed + 1
    /\ \E dm \in ModelArgs :
        /\ decoder_model' = dm
        /\ n_models' = IF dm.list THEN Len(dm.val) ELSE 1
        /\ \E extra \in 0..MaxExtraHotwords : num_hotwords' = n_models' + extra
    /\ \/ /\ sens_arg' = "default"
          /\ sens_ref' = "default"
          /\ caller_sens' = <<>>
          /\ caller_orig' = <<>>
          /\ local_sens' = <<>>
       \/ \E v \in SensValues :
          /\ sens_arg' = "scalar"
          /\ sens_ref' = "local"
          /\ caller_sens' = <<v>>
          /\ caller_orig' = <<v>>
          /\ local_sens' = <<v>>
       \/ \E xs \in SeqsUpTo(SensValues, MaxSens) :
          /\ sens_arg' = "list"
          /\ sens_ref' = "caller"
          /\ caller_sens' = xs
          /\ caller_orig' = xs
          /\ local_sens' = <<>>
    /\ paused' = FALSE
    /\ kill_received' = FALSE
    /\ ip' = "check_sens"
    /\ UNCHANGED <<default_sens, set_sens, fmt, oa_i, attempts, sleeps, exc>>
    /\ UNCHANGED <<interrupt, detected_callback, stream_in, audio>>
    /\ UNCHANGED <<rbVars, rbObs, loopVars, capVars, ctl_pc, detObs>>

\* if len(sensitivity) > self.num_hotwords: assert ... (the assertion is false)
SensTooManyNever(len, n) == FALSE

SensTooMany(len, n) == len > n

Ctor_CheckSens ==
    /\ ip = "check_sens"
    /\ IF SensTooMany(Len(CurSens), num_hotwords)
       THEN ip' = "failed" /\ exc' = "AssertionError"
       ELSE ip' = "pad_test" /\ exc' = exc
    /\ UNCHANGED <<decoder_model, sens_arg, default_sens, caller_sens, caller_orig,
                   sens_ref, local_sens, n_models, set_sens, fmt, oa_i, attempts,
                   sleeps, n_constructed>>
    /\ UNCHANGED <<rbVars, rbObs, detVars, loopVars, capVars, ctl_pc, detObs>>

\* if len(sensitivity) != self.num_hotwords:
Ctor_PadTest ==
    /\ ip = "pad_test"
    /\ ip' = IF Len(CurSens) # num_hotwords THEN "pad_loop" ELSE "broadcast"
    /\ UNCHANGED <<decoder_model, sens_arg, default_sens, caller_sens, caller_orig,
                   sens_ref, local_sens, n_models, set_sens, fmt, oa_i, attempts,
                   sleeps, exc, n_constructed>>
    /\ UNCHANGED <<rbVars, rbObs, detVars, loopVars, capVars, ctl_pc, detObs>>

\* One turn of the while loop: sensitivity.append(0.5) on the list object the
\* name refers to, then the test len(sensitivity) == self.num_hotwords.
Ctor_PadAppend ==
    /\ ip = "pad_loop"
    /\ Len(CurSens) < PadCap
    /\ LET grown == Append(CurSens, DefaultSensitivity)
       IN /\ default_sens' = IF sens_ref = "default" THEN grown ELSE default_sens
          /\ caller_sens' = IF sens_ref = "caller" THEN grown ELSE caller_sens
          /\ local_sens' = IF sens_ref = "local" THEN grown ELSE local_sens
          /\ ip' = IF Len(grown) = num_hotwords THEN "broadcast" ELSE "pad_loop"
    /\ UNCHANGED <<decoder_model, sens_arg, caller_orig, sens_ref, n_models,
                   set_sens, fmt, oa_i, attempts, sleeps, exc, n_constructed>>
    /\ UNCHANGED <<rbVars, rbObs, detVars, loopVars, capVars, ctl_pc, detObs>>

\* if len(decoder_model) > 1 and len(sensitivity) == 1:
\*     sensitivity = sensitivity*self.num_hotwords   (a new list)
Ctor_Broadcast ==
    /\ ip = "broadcast"
    /\ IF n_models > 1 /\ Len(CurSens) = 1
       THEN /\ local_sens' = Repeat(CurSens, num_hotwords)
            /\ sens_ref' = "local"
       ELSE UNCHANGED <<local_sens, sens_ref>>
    /\ ip' = "set_sens"
    /\ UNCHANGED <<decoder_model, sens_arg, default_sens, caller_sens, caller_orig,
                   n_models, set_sens, fmt, oa_i, attempts, sleeps, exc,
                   n_constructed>>
    /\ UNCHANGED <<rbVars, rbObs, detVars, loopVars, capVars, ctl_pc, detObs>>

\* sensitivity_str = ",".join([str(t) for t in sensitivity]), as the sequence
\* of its comma-separated fields
SensitivityStr(xs) == [k \in 1..Len(xs) |-> StrOf(xs[k])]

\* if len(sensitivity) != 0: self.detector.SetSensitivity(...)
Ctor_SetSensitivity ==
    /\ ip = "set_sens"
    /\ set_sens' = IF Len(CurSens) # 0
                   THEN [called |-> TRUE, arg |-> SensitivityStr(CurSens)]
                   ELSE set_sens
    /\ ip' = "ring_buffer"
    /\ UNCHANGED <<decoder_model, sens_arg, default_sens, caller_sens, caller_orig,
                   sens_ref, local_sens, n_models, fmt, oa_i, attempts, sleeps,
                   exc, n_constructed>>
    /\ UNCHANGED <<rbVars, rbObs, detVars, loopVars, capVars, ctl_pc, detObs>>

\* RingBuffer(self.detector.NumChannels() * self.detector.SampleRate() * 5)
RingCapacity(f) == f.channels * f.rate * BufferSeconds

\* Lines 112-114: the ring buffer and the PyAudio handle.
Ctor_RingBuffer ==
    /\ ip = "ring_buffer"
    /\ \E c \in Channels, r \in Rates, b \in Bits :
          fmt' = [channels |-> c, rate |-> r, bits |-> b]
    /\ ring_size' = RingCapacity(fmt')
    /\ buf' = <<>>
    /\ rb_paused' = FALSE
    /\ audio' = "live"
    /\ ip' = "open"
    /\ UNCHANGED <<decoder_model, sens_arg, default_sens, caller_sens, caller_orig,
                   sens_ref, local_sens, n_models, set_sens, oa_i, attempts,
                   sleeps, exc, n_constructed>>
    /\ UNCHANGED <<paused, kill_received, interrupt, detected_callback,
                   num_hotwords, stream_in>>
    /\ UNCHANGED <<rbObs, loopVars, capVars, ctl_pc, detObs>>

\* ------------------------------------------------------------ open_audio
\* if i == 5: raise SnowboyOpenAudioException
GiveUpLate(i) == i = MaxOpenRetry + 1

GiveUp(i) == i = MaxOpenRetry

\* One call of open_audio up to its sleep: self.audio.open succeeds, or raises
\* IOError and the handler gives up or increments i.
Open_Attempt ==
    /\ ip = "open"
    /\ attempts' = attempts + 1
    /\ \/ /\ stream_in' = "open"
          /\ ip' = "constructed"
          /\ UNCHANGED <<oa_i, exc>>
       \/ /\ IF GiveUp(oa_i)
             THEN /\ exc' = "SnowboyOpenAudioException"
                  /\ ip' = "failed"
                  /\ oa_i' = oa_i
             ELSE /\ oa_i' = oa_i + 1
                  /\ ip' = "sleep"
                  /\ exc' = exc
          /\ UNCHANGED stream_in
    /\ UNCHANGED <<decoder_model, sens_arg, default_sens, caller_sens, caller_orig,
                   sens_ref, local_sens, n_models, set_sens, fmt, sleeps,
                   n_constructed>>
    /\ UNCHANGED <<paused, kill_received, interrupt, detected_callback,
                   num_hotwords, audio>>
    /\ UNCHANGED <<rbVars, rbObs, loopVars, capVars, ctl_pc, detObs>>

\* time.sleep(i), in seconds, i already incremented
SleepOneSecond(i) == 1

SleepSeconds(i) == i

\* time.sleep(i); self.open_audio(audio_callback, i)
Open_Sleep ==
    /\ ip = "sleep"
    /\ sleeps' = Append(sleeps, SleepSeconds(oa_i))
    /\ ip' = "open"
    /\ UNCHANGED <<decoder_model, sens_arg, default_sens, caller_sens, caller_orig,
                   sens_ref, local_sens, n_models, set_sens, fmt, oa_i, attempts,
                   exc, n_constructed>>
    /\ UNCHANGED <<rbVars, rbObs, detVars, loopVars, capVars, ctl_pc, detObs>>

\* The program goes on to construct another detector. Only the default list
\* of sensitivity=[] (created once, when the function is defined) is carried
\* over.
Ctor_Again ==
    /\ ip \in {"constructed", "failed"}
    /\ n_constructed < MaxConstructions
    /\ ip' = "idle"
    /\ decoder_model' = Scalar("a")
    /\ sens_arg' = "default"
    /\ caller_sens' = <<>>
    /\ caller_orig' = <<>>
    /\ sens_ref' = "default"
    /\ local_sens' = <<>>
    /\ n_models' = 0
    /\ set_sens' = [called |-> FALSE, arg |-> <<>>]
    /\ fmt' = [channels |-> 1, rate |-> 1, bits |-> 8]
    /\ oa_i' = 0
    /\ attempts' = 0
    /\ sleeps' = <<>>
    /\ exc' = "none"
    /\ num_hotwords' = 0
    /\ stream_in' = "none"
    /\ audio' = "none"
    /\ ring_size' = 0
    /\ UNCHANGED <<default_sens, n_constructed>>
    /\ UNCHANGED <<buf, rb_paused>>
    /\ UNCHANGED <<paused, kill_received, interrupt, detected_callback>>
    /\ UNCHANGED <<rbObs, loopVars, capVars, ctl_pc, detObs>>

NextCtor ==
    \/ Ctor_Begin \/ Ctor_CheckSens \/ Ctor_PadTest \/ Ctor_PadAppend
    \/ Ctor_Broadcast \/ Ctor_SetSensitivity \/ Ctor_RingBuffer
    \/ Open_Attempt \/ Open_Sleep \/ Ctor_Again

SpecCtor == InitCtor /\ [][NextCtor]_vars

\* ============================================================ properties

\* ------------------------------------------------------------ C1
\* The bytes extend has put into the deque so far.
Appended == (1..captured) \ (discarded \cup Range(in_data))

Occurrences(b, s) == Cardinality({k \in 1..Len(s) : s[k] = b})

\* C1 (as claimed): under every interleaving of the capture callback's extend
\* with the loop's get, every byte appended while the buffer is not paused and
\* not evicted by capacity overflow is returned by exactly one get: it is
\* still buffered or has been returned, and it is never returned twice.
C1_NoLossNoDuplicate ==
    \A b \in Appended \ evicted :
        /\ b \in Range(buf) \/ b \in Range(delivered)
        /\ Occurrences(b, delivered) <= 1

\* ------------------------------------------------------------ C2
\* C2 (as claimed): once pause() has returned and until unpause() is called,
\* nothing is appended to the ring buffer and the loop performs no drain, no
\* engine call and no callback invocation.
C2_NothingWhileHeld == pause_held => held_work = NoWork

\* C2 (amended): once pause() has returned and until unpause() is called, at
\* most one append, one drain, one engine call and one callback invocation
\* still happen (those of the capture callback and of the loop iteration that
\* had passed their test of the paused flag); every loop iteration that tests
\* the flag in that period sleeps, and every capture callback invoked in that
\* period leaves the buffer unchanged.
C2_AtMostTheStepInProgress ==
    /\ [](pause_held =>
            /\ held_work.append <= 1
            /\ held_work.drain <= 1
            /\ held_work.engine <= 1
            /\ held_work.cb <= 1)
    /\ [][(pause_held /\ pc = "if_paused" /\ pc' # pc) => pc' = "sleep_paused"]_vars
    /\ [][(pause_held /\ captured' # captured) =>
            /\ cb_pc' = "idle"
            /\ buf' = buf
            /\ discarded' = discarded \cup ((captured + 1)..captured')]_vars

\* The iteration in progress when pause() returned ran to its end: one drain,
\* one engine call and one callback, and the next iteration sleeps.
C2_Witness ==
    /\ pause_held
    /\ pc = "sleep_paused"
    /\ held_work.drain = 1
    /\ held_work.engine = 1
    /\ held_work.cb = 1

\* ------------------------------------------------------------ C3
\* The positions of run() inside an iteration, after the test of self.paused.
IterationBody ==
    {"sleep_paused", "get_copy", "get_clear", "sleep_empty", "run_detection",
     "dispatch", "callback"}

\* C3 (as claimed): in every iteration of the loop, paused or not, the
\* interruption predicate is evaluated (and found false) before the iteration
\* sleeps or touches the buffer.
C3_CheckedInEveryIteration == pc \in IterationBody => iter_checked

\* ------------------------------------------------------------ C4
\* C4: the buffered length never exceeds the capacity, extend is always
\* possible, and after extends on an unpaused buffer a single get returns
\* exactly the last min(C, total) bytes appended, in order.
C4_KeepsMostRecent ==
    /\ Len(buf) <= ring_size
    /\ captured < MaxBytes => ENABLED SeqExtend
    /\ (discarded = {} /\ delivered = <<>>) =>
            RB_copy(buf) = LastN(ring_size, Frame(0, captured))
    /\ (rb_op = "get" /\ discarded = {} /\ delivered = last_get) =>
            last_get = LastN(ring_size, Frame(0, captured))

\* More was appended than fits, and the single get returned a full buffer.
C4_Witness ==
    /\ rb_op = "get"
    /\ discarded = {}
    /\ delivered = last_get
    /\ captured > ring_size
    /\ Len(last_get) = ring_size
    /\ evicted # {}

\* ------------------------------------------------------------ C5
\* C5: bytes passed to extend while paused never appear in a get; a get
\* returns the bytes accepted since the previous get, those buffered before a
\* pause and those appended after unpause alike (the most recent C of them);
\* pause and unpause leave the buffered bytes unchanged.
C5_PauseDiscards ==
    /\ [](discarded \cap (Range(buf) \cup Range(delivered)) = {})
    /\ [][rb_op' = "get" => last_get' = LastN(ring_size, pending)]_vars
    /\ [][rb_op' \in {"pause", "unpause"} => buf' = buf]_vars
    /\ [][(rb_op' = "extend" /\ ~rb_paused) =>
            \A b \in (captured + 1)..captured' : b \in Range(pending')]_vars

\* A get returned a byte buffered before a pause and a byte appended after the
\* unpause, and not the byte passed in between.
C5_Witness ==
    /\ rb_op = "get"
    /\ \E d \in discarded : \E a, b \in Range(last_get) : a < d /\ d < b

\* ------------------------------------------------------------ C6
\* C6: when every open attempt fails, open_audio makes exactly 6 attempts,
\* sleeps 1, 2, 3, 4, 5 seconds between them and then raises
\* SnowboyOpenAudioException; there is never a 7th attempt or a 6th sleep.
C6_RetryBound ==
    /\ attempts <= MaxOpenRetry + 1
    /\ Len(sleeps) <= MaxOpenRetry
    /\ exc = "SnowboyOpenAudioException" =>
            /\ attempts = MaxOpenRetry + 1
            /\ sleeps = [k \in 1..MaxOpenRetry |-> k]
            /\ ip = "failed"
            /\ stream_in = "none"

C6_Witness == exc = "SnowboyOpenAudioException" /\ Len(sleeps) = MaxOpenRetry

\* ------------------------------------------------------------ C7, C8, C9
\* __init__ is past line 110: the sensitivities are what the engine got.
SensSettled ==
    \/ ip \in {"ring_buffer", "open", "sleep", "constructed"}
    \/ ip = "failed" /\ exc = "SnowboyOpenAudioException"

\* C7 (as claimed): with several models and exactly one supplied sensitivity
\* s, the list passed to the engine has one entry per model, each equal to s.
C7_SingleValueBroadcast ==
    (SensSettled /\ n_models > 1 /\ sens_arg # "default" /\ Len(caller_orig) = 1) =>
        /\ set_sens.called
        /\ set_sens.arg = [k \in 1..n_models |-> StrOf(caller_orig[1])]

\* C8 (as claimed): constructed with an empty sensitivity list (the default),
\* the engine's sensitivity setter is never called.
C8_EmptyKeepsModelDefaults ==
    (SensSettled /\ (sens_arg = "default" \/ (sens_arg = "list" /\ caller_orig = <<>>))) =>
        ~set_sens.called

\* C9: when more sensitivities are supplied than the engine has hotwords,
\* construction fails with the assertion error; the list is not truncated,
\* the setter is not called, no ring buffer or audio stream is created.
C9_TooManyIsAnError ==
    (sens_arg = "list" /\ Len(caller_orig) > num_hotwords
        /\ ip \notin {"idle", "check_sens"}) =>
        /\ ip = "failed"
        /\ exc = "AssertionError"
        /\ caller_sens = caller_orig
        /\ ~set_sens.called
        /\ ring_size = 0
        /\ audio = "none"
        /\ stream_in = "none"

C9_Witness ==
    /\ ip = "failed"
    /\ exc = "AssertionError"
    /\ sens_arg = "list"
    /\ Len(caller_orig) > num_hotwords

\* ------------------------------------------------------------ C10
\* The callback the caller configured for hotword k: a single callback serves
\* every hotword, a list serves hotword k with its k-th entry.
ExpectedCallback(cfg, k) ==
    IF ~cfg.list THEN cfg.val
    ELSE IF Len(cfg.val) = 1 THEN cfg.val[1]
    ELSE cfg.val[k]

\* C10: for an engine result k in 1..num_hotwords the loop invokes exactly the
\* callback configured for hotword k; when that is None it invokes nothing
\* and goes on with the next iteration.
C10_DispatchByIndex ==
    /\ [][(pc = "dispatch" /\ pc' # pc /\ ans >= 1) =>
            LET e == ExpectedCallback(cfg_callback, ans)
            IN IF e # None
               THEN pc' = "callback" /\ callback' = e
               ELSE pc' = "while"]_vars
    /\ [][(pc = "dispatch" /\ pc' # pc /\ ans < 1) => pc' = "while"]_vars
    /\ [][(pc = "callback" /\ pc' # pc) => pc' = "while"]_vars
    /\ [][pc = "callback" => callback # None]_vars

\* With one callback per hotword, hotword 2 is about to invoke the second.
C10_Witness ==
    /\ pc = "callback"
    /\ cfg_callback.list
    /\ Len(cfg_callback.val) = 2
    /\ cfg_callback.val[1] # None
    /\ callback = cfg_callback.val[2]

\* ------------------------------------------------------------ C11
\* The length the configured callbacks have once a single callback is
\* broadcast to n hotwords.
ExpandedLen(cfg, n) ==
    IF ~cfg.list THEN (IF n > 1 THEN n ELSE 1)
    ELSE IF Len(cfg.val) = 1 /\ n > 1 THEN n
    ELSE Len(cfg.val)

CallbackMismatch == ExpandedLen(cfg_callback, num_hotwords) # num_hotwords

\* C11 (as claimed): started with callbacks whose expanded length differs from
\* the hotword count, run fails with the assertion error, whatever the
\* interruption predicate returns at entry.
C11_MismatchAlwaysFails ==
    (CallbackMismatch /\ pc \notin {"not_started", "normalize"}) =>
        pc = "assert_failed"

\* C11 (amended): started with such callbacks, run performs no drain and no
\* engine call; it fails with the assertion error when the interruption
\* predicate returns False at entry, and returns normally, without checking
\* the callbacks, when the predicate returns True at entry.
C11_MismatchFailsUnlessInterrupted ==
    /\ [](CallbackMismatch =>
            /\ pc \in {"not_started", "normalize", "assert_failed", "done"}
            /\ pc = "done" => interrupt
            /\ delivered = <<>>
            /\ fed = <<>>)
    /\ [][(CallbackMismatch /\ pc = "not_started" /\ pc' # pc) =>
            pc' = IF interrupt THEN "done" ELSE "normalize"]_vars
    /\ [][(CallbackMismatch /\ pc = "normalize" /\ pc' # pc) =>
            pc' = "assert_failed"]_vars
    /\ [][pc = "assert_failed" => pc' = "assert_failed"]_vars

\* run failed on the assertion while audio was waiting in the buffer.
C11_Witness ==
    /\ CallbackMismatch
    /\ pc = "assert_failed"
    /\ buf # <<>>
    /\ ~interrupt

\* ------------------------------------------------------------ C12
\* C12: when the interruption predicate returns True at the start of run, the
\* loop returns at once: no drain, no engine call, no callback, whatever the
\* buffer holds and whether paused or not; after the return none ever happens.
C12_InterruptedAtEntry ==
    /\ [][(pc = "not_started" /\ pc' # pc /\ interrupt) =>
            /\ pc' = "done"
            /\ UNCHANGED <<buf, delivered, fed, tmp, data, ans, callback,
                           detected_callback>>]_vars
    /\ [][pc = "done" =>
            /\ pc' = "done"
            /\ UNCHANGED <<delivered, fed, tmp, data, ans, callback>>
            /\ (buf' # buf => cb_pc = "extend")]_vars

\* run returned at entry (the callbacks were never normalised) although the
\* buffer held audio and the detector was paused.
C12_Witness ==
    /\ pc = "done"
    /\ interrupt
    /\ ~detected_callback.list
    /\ buf # <<>>
    /\ paused
    /\ delivered = <<>>

\* ------------------------------------------------------------ C13
\* C13: an engine result of -1 (error) or 0 (no hotword) invokes no callback,
\* does not end the loop and raises nothing: the loop is back at its head with
\* no exit cause produced, and goes on to the next iteration from there.
C13_NoMatchKeepsLooping ==
    /\ [][(pc = "dispatch" /\ pc' # pc /\ ans \in {-1, 0}) =>
            /\ pc' = "while"
            /\ callback' = None
            /\ UNCHANGED <<kill_received, interrupt, paused, held_work,
                           detected_callback, rbVars>>]_vars
    /\ [][(pc = "while" /\ ans \in {-1, 0} /\ pc' # pc /\ ~kill_received) =>
            pc' = "if_paused"]_vars
    /\ [](pc = "callback" => ans > 0)

\* the loop handled an error result and is at its head, not exited, after an
\* earlier block had already been detected on.
C13_Witness ==
    /\ pc = "while"
    /\ ans = -1
    /\ ~kill_received
    /\ ~interrupt
    /\ Len(fed) > 1

\* ------------------------------------------------------------ C14
\* C14: terminate() only stops and closes the stream and releases the audio
\* subsystem; it leaves kill_received, both paused flags, the ring buffer and
\* the loop's position unchanged, so the loop exits only on kill_received or
\* the interruption predicate and keeps iterating with the stream closed.
C14_TerminateOnlyClosesAudio ==
    /\ [][(stream_in = "open" /\ stream_in' # "open") =>
            /\ stream_in' = "closed"
            /\ audio' = "terminated"
            /\ UNCHANGED <<kill_received, paused, interrupt, rbVars,
                           loopVars, detected_callback>>]_vars
    /\ [](pc = "done" => (kill_received \/ interrupt))
    /\ [][(stream_in = "closed" /\ pc = "while" /\ pc' # pc
             /\ ~kill_received) => pc' = "if_paused"]_vars

\* the loop is inside an iteration, draining, although terminate() has closed
\* the stream and released the audio subsystem.
C14_Witness ==
    /\ stream_in = "closed"
    /\ audio = "terminated"
    /\ pc = "get_copy"
    /\ ~kill_received
    /\ ~interrupt

\* ------------------------------------------------------------ C15
\* C15: a get returns everything that is buffered and leaves the buffer empty;
\* of two consecutive get calls with no extend between them the second
\* returns the empty sequence.
C15_GetDrains ==
    /\ [][rb_op' = "get" => (last_get' = buf /\ buf' = <<>>)]_vars
    /\ [](rb_op = "get" => buf = <<>>)
    /\ [][(rb_op = "get" /\ rb_op' = "get") => last_get' = <<>>]_vars
    /\ [][(rb_op' = "get" /\ buf = <<>>) => last_get' = <<>>]_vars

\* a get returned nothing although every byte ever appended (none of them
\* discarded on pause) had been returned or evicted: an earlier get had taken
\* them, and no extend came between.
C15_Witness ==
    /\ rb_op = "get"
    /\ last_get = <<>>
    /\ Len(delivered) >= 2
    /\ discarded = {}
    /\ captured = Len(delivered) + Cardinality(evicted)

\* ------------------------------------------------------------ C16
LoopRunning ==
    pc \in {"while", "if_paused", "interrupt_check", "get_copy", "get_clear",
            "sleep_empty", "sleep_paused", "run_detection", "dispatch",
            "callback"}

\* C16: once kill_received is set while the loop is running, the loop exits,
\* paused or not; it completes at most the iteration in progress (at most one
\* more drain, one more engine call, one more callback), and after the exit it
\* drains nothing, calls the engine no more and invokes no callback.
C16_KillStopsLoop ==
    /\ (kill_received /\ LoopRunning) ~> (pc = "done")
    /\ [](/\ kill_work.drain <= 1
          /\ kill_work.engine <= 1
          /\ kill_work.cb <= 1)
    /\ [][(pc = "while" /\ kill_received /\ pc' # pc) => pc' = "done"]_vars
    /\ [][pc = "done" => UNCHANGED <<loopVars, delivered, fed, kill_work>>]_vars

\* kill_received was set during an iteration that went on to drain, detect
\* and call back; the loop, paused meanwhile, is at its head about to exit.
C16_Witness ==
    /\ pc = "while"
    /\ kill_received
    /\ paused
    /\ kill_work.drain = 1
    /\ kill_work.engine = 1
    /\ kill_work.cb = 1

\* ------------------------------------------------------------ C17
\* Bytes are numbered by their position in the capture stream, so a sequence
\* of them is a subsequence of the captured stream, in capture order, exactly
\* when it is strictly increasing and holds captured bytes only.
InCaptureOrder(s) ==
    /\ \A i, j \in 1..Len(s) : i < j => s[i] < s[j]
    /\ Range(s) \subseteq 1..captured

\* C17: the concatenation of the blocks passed to the engine, followed by the
\* block about to be passed, is a subsequence of the captured frames in
\* capture order: bytes may be missing but never reordered or repeated.
C17_EngineSeesCaptureOrder == InCaptureOrder(fed \o data)

\* the engine has been given two bytes.
C17_Witness ==
    /\ Len(fed) = 2
    /\ pc = "dispatch"

\* ------------------------------------------------------------ C18
\* C18: when the first n attempts to open the stream fail with an IOError
\* (0 <= n <= 5) and attempt n+1 succeeds, open_audio has slept 1, 2, ..., n
\* seconds in this order, raises nothing, leaves the stream of the successful
\* attempt open, and makes no further attempt.
C18_RetryThenSuccess ==
    /\ [](ip = "constructed" =>
            /\ attempts \in 1..(MaxOpenRetry + 1)
            /\ sleeps = [k \in 1..(attempts - 1) |-> k]
            /\ exc = "none"
            /\ stream_in = "open")
    /\ [][ip = "constructed" =>
            \/ UNCHANGED <<attempts, sleeps, stream_in, exc>>
            \/ ip' = "idle"]_vars

\* five failures, then the sixth attempt succeeded.
C18_Witness ==
    /\ ip = "constructed"
    /\ attempts = MaxOpenRetry + 1
    /\ Len(sleeps) = MaxOpenRetry

\* ------------------------------------------------------------ C19
\* C19 (as claimed): for every engine audio format the ring buffer's capacity
\* in bytes is the size of five seconds of audio:
\* channels x sample rate x (bits per sample / 8) x 5.
C19_CapacityIsFiveSeconds ==
    ip \in {"open", "sleep", "constructed"} =>
        ring_size = fmt.channels * fmt.rate * (fmt.bits \div 8) * BufferSeconds

\* ------------------------------------------------------------ C20
\* C20 (as claimed): a construction leaves the caller's sensitivity list and
\* the shared default list unchanged, so a construction with the default
\* sensitivity never fails for having too many sensitivities, whatever was
\* constructed before.
C20_ArgumentsUntouched ==
    /\ default_sens = <<>>
    /\ sens_arg = "list" => caller_sens = caller_orig
    /\ sens_arg = "default" => exc # "AssertionError"
====
